---- MODULE Spec2Model ----
(***************************************************************************)
(* State-machine model of pptx_to_png.py: the freshness check              *)
(* (needs_conversion), the PNG timestamp helpers, the geometry computed in *)
(* the export loop, and main's control flow.                               *)
(*                                                                         *)
(* Conventions.                                                            *)
(*  - A timestamp is a natural number of tenths of a second; str() and     *)
(*    float() are modelled on decimal text ("9.8"), as sequences of        *)
(*    one-character strings.                                               *)
(*  - A Python float is a record [nan, val]: float("nan") is a value that  *)
(*    compares False with everything.                                      *)
(*  - An optional int (argparse's width / height) is <<>> for None and     *)
(*    <<n>> for the integer n.                                             *)
(*  - The slide size is a pair of naturals; width * (h / w) is computed    *)
(*    exactly (binary floating-point error is not modelled).               *)
(***************************************************************************)
EXTENDS Integers, Sequences, FiniteSets, TLC

VARIABLES
    doc,              \* the source document: [valid, slides, slide_width, slide_height]
    width, height,    \* the command line's --width / --height
    mtime,            \* os.path.getmtime(source), changed by external writers
    dirExists,        \* the destination directory exists
    dir,              \* the destination directory: file name -> file
    pc,               \* position of the running main()
    num_slides,       \* main's num_slides
    source_timestamp, \* export_slides_as_png's source_timestamp
    i,                \* the export loop's ordinal
    powerpoint,       \* the PowerPoint application of this run
    presentation,     \* the presentation opened by this run
    events,           \* this run's renderer and embed calls, in order
    printed,          \* this run's diagnostic messages
    needed,           \* what needs_conversion returned in this run
    before,           \* the filesystem when this run started
    prev,             \* summary of the previous run
    touched,          \* the source was modified since this run started
    loaded,           \* the document version (its mtime) PowerPoint has loaded
    rendered          \* file name -> the document version its pixels show

vars == <<doc, width, height, mtime, dirExists, dir, pc, num_slides,
          source_timestamp, i, powerpoint, presentation, events, printed,
          needed, before, prev, touched, loaded, rendered>>

----------------------------------------------------------------------------
(* Bounds *)
MaxSlides == 2
MinTime == 98
MaxTime == 100
MaxArg == 2
MaxDim == 3

(* ppt_width = 1280  # Default width *)
DefaultWidth == 1280

Stem == "deck"

----------------------------------------------------------------------------
(* Text and floats *)

DigitChar == <<"0", "1", "2", "3", "4", "5", "6", "7", "8", "9">>

Digits == {DigitChar[d] : d \in 1..10}

DigitVal(c) == (CHOOSE d \in 1..10 : DigitChar[d] = c) - 1

RECURSIVE IntStr(_)
IntStr(n) ==
    IF n < 10 THEN <<DigitChar[n + 1]>>
    ELSE Append(IntStr(n \div 10), DigitChar[(n % 10) + 1])

RECURSIVE ParseInt(_)
ParseInt(s) ==
    IF Len(s) = 0 THEN 0
    ELSE 10 * ParseInt(SubSeq(s, 1, Len(s) - 1)) + DigitVal(s[Len(s)])

IsDigits(s) == Len(s) > 0 /\ \A j \in 1..Len(s) : s[j] \in Digits

FloatOf(n) == [nan |-> FALSE, val |-> n]

NaN == [nan |-> TRUE, val |-> 0]

Zero == FloatOf(0)

(* mutant: the comparison of line 84 written <= *)
LtOrEqual(a, b) == ~a.nan /\ ~b.nan /\ a.val <= b.val

(* a < b on Python floats *)
Lt(a, b) == ~a.nan /\ ~b.nan /\ a.val < b.val

(* mutant: the timestamp written as str(int(timestamp)) *)
StrFloatTruncated(t) == IntStr(t \div 10)

(* str(timestamp) of a float: "<seconds>.<tenths>" *)
StrFloat(t) == IntStr(t \div 10) \o <<".">> \o IntStr(t % 10)

NanText == <<"n", "a", "n">>

(* float(s): [err |-> TRUE] stands for ValueError *)
Float(s) ==
    IF IsDigits(s)
    THEN [err |-> FALSE, value |-> FloatOf(10 * ParseInt(s))]
    ELSE IF /\ Len(s) >= 3
            /\ s[Len(s) - 1] = "."
            /\ IsDigits(SubSeq(s, 1, Len(s) - 2))
            /\ s[Len(s)] \in Digits
    THEN [err |-> FALSE,
          value |-> FloatOf(10 * ParseInt(SubSeq(s, 1, Len(s) - 2))
                            + DigitVal(s[Len(s)]))]
    ELSE IF s = NanText
    THEN [err |-> FALSE, value |-> NaN]
    ELSE [err |-> TRUE, value |-> Zero]

----------------------------------------------------------------------------
(* Files of the destination directory *)

Absent == [kind |-> "absent", hasText |-> FALSE, text |-> <<>>]

(* a file that exists and cannot be opened as an image *)
Corrupt == [kind |-> "corrupt", hasText |-> FALSE, text |-> <<>>]

(* a PNG without the SourcePPTXTimestamp text chunk *)
PlainPng == [kind |-> "png", hasText |-> FALSE, text |-> <<>>]

(* a PNG whose SourcePPTXTimestamp text chunk holds s *)
StampedPng(s) == [kind |-> "png", hasText |-> TRUE, text |-> s]

Exists(f) == f.kind # "absent"

Pad2(n) == IF n < 10 THEN <<"0">> \o IntStr(n) ELSE IntStr(n)

(* f"{Path(source).stem}-slide-{i:02}.png" *)
OutputName(n) == <<Stem, "-slide-">> \o Pad2(n) \o <<".png">>

Names == {OutputName(n) : n \in 1..MaxSlides}

(* mutant: the ordinal of line 135 written without padding, f"{i}" *)
ExportNameUnpadded(n) == <<Stem, "-slide-">> \o IntStr(n) \o <<".png">>

(* the output_name of the export loop, lines 135-136 *)
ExportName(n) == <<Stem, "-slide-">> \o Pad2(n) \o <<".png">>

----------------------------------------------------------------------------
(* The PNG timestamp helpers *)

(* Image.open(png_path) raises IOError / OSError *)
OpenRaises(f) == f.kind # "png"

(* get_timestamp_from_png takes its except branch *)
ReadRaises(f) ==
    \/ OpenRaises(f)
    \/ f.hasText /\ f.text # <<>> /\ Float(f.text).err

get_timestamp_from_png(f) ==
    IF OpenRaises(f) THEN Zero
    ELSE LET timestamp_str == IF f.hasText THEN f.text ELSE <<>>
         IN  IF timestamp_str = <<>> THEN Zero
             ELSE IF Float(timestamp_str).err THEN Zero
             ELSE Float(timestamp_str).value

(* the file left by a successful add_timestamp_to_png(png_path, timestamp) *)
add_timestamp_to_png(f, timestamp) == StampedPng(StrFloat(timestamp))

(* the files a failed add_timestamp_to_png can leave: Image.open failed and  *)
(* nothing was written, or img.save failed after truncating the file         *)
FailedWrites(f) == {f, Corrupt}

get_slide_count(d) == IF d.valid THEN d.slides ELSE 0

----------------------------------------------------------------------------
(* The freshness check *)

(* mutant: the loop without the output_path.exists() test of line 80 *)
RECURSIVE NeedsLoopNoExists(_, _, _, _)
NeedsLoopNoExists(files, src, n, last) ==
    IF n > last THEN <<"uptodate", 0>>
    ELSE IF /\ Exists(files[OutputName(n)])
            /\ Lt(get_timestamp_from_png(files[OutputName(n)]), src)
    THEN <<"outdated", n>>
    ELSE NeedsLoopNoExists(files, src, n + 1, last)

(* the loop of needs_conversion from ordinal n on: the message it prints *)
RECURSIVE NeedsLoop(_, _, _, _)
NeedsLoop(files, src, n, last) ==
    IF n > last THEN <<"uptodate", 0>>
    ELSE IF ~Exists(files[OutputName(n)]) THEN <<"missing", n>>
    ELSE IF Lt(get_timestamp_from_png(files[OutputName(n)]), src)
    THEN <<"outdated", n>>
    ELSE NeedsLoop(files, src, n + 1, last)

(* mutant: the loop written range(1, num_slides) *)
needs_conversion_short(files, mt, count) ==
    NeedsLoop(files, FloatOf(mt), 1, count - 1)[1] # "uptodate"

needs_conversion(files, mt, count) ==
    NeedsLoop(files, FloatOf(mt), 1, count)[1] # "uptodate"

(* the ordinals needs_conversion reads before it returns *)
Probed(files, mt, count) ==
    LET v == NeedsLoop(files, FloatOf(mt), 1, count)
    IN  IF v[1] = "uptodate" THEN 1..count
        ELSE IF v[1] = "missing" THEN 1..(v[2] - 1)
        ELSE 1..v[2]

(* everything needs_conversion prints *)
NeedsPrints(files, mt, count) ==
    {NeedsLoop(files, FloatOf(mt), 1, count)}
    \cup {<<"read_error", n>> : n \in {m \in Probed(files, mt, count) :
                                          ReadRaises(files[OutputName(m)])}}

----------------------------------------------------------------------------
(* Geometry of the export loop *)

None == <<>>

(* Python truthiness of an optional int: None and 0 are false *)
Truthy(x) == x # None /\ x[1] # 0

(* int(a / b) for a >= 0, b > 0 *)
IntDiv(a, b) == a \div b

(* slide_height / slide_width, or height / aspect_ratio, divides by zero *)
ZeroDivision(w, h, sw, sh) ==
    \/ sw = 0
    \/ ~Truthy(w) /\ Truthy(h) /\ sh = 0

(* mutant: the branch of line 125 tested before that of line 123 *)
ppt_size_width_first(w, h, sw, sh) ==
    IF Truthy(w) THEN <<w[1], IntDiv(w[1] * sh, sw)>>
    ELSE IF Truthy(h) THEN <<IntDiv(h[1] * sw, sh), h[1]>>
    ELSE <<DefaultWidth, IntDiv(DefaultWidth * sh, sw)>>

(* <<ppt_width, ppt_height>> *)
ppt_size(w, h, sw, sh) ==
    IF Truthy(w) /\ Truthy(h) THEN <<w[1], h[1]>>
    ELSE IF Truthy(w) THEN <<w[1], IntDiv(w[1] * sh, sw)>>
    ELSE IF Truthy(h) THEN <<IntDiv(h[1] * sw, sh), h[1]>>
    ELSE <<DefaultWidth, IntDiv(DefaultWidth * sh, sw)>>

----------------------------------------------------------------------------
(* Initial states *)

Texts == {<<>>, <<"a", "b", "c">>, NanText}
         \cup {StrFloat(t) : t \in MinTime..MaxTime}

Files == {Absent, Corrupt, PlainPng} \cup {StampedPng(s) : s \in Texts}

Args == {None} \cup {<<n>> : n \in 0..MaxArg}

EmptyDir == [n \in Names |-> Absent]

NoRun == [completed |-> FALSE, quiet |-> FALSE, embedded |-> FALSE,
          exports |-> 0]

InitRun ==
    /\ pc = "idle"
    /\ num_slides = 0
    /\ source_timestamp = 0
    /\ i = 0
    /\ powerpoint = "none"
    /\ presentation = "none"
    /\ events = <<>>
    /\ printed = {}
    /\ needed = "unknown"
    /\ before = dirExists
    /\ prev = NoRun
    /\ touched = FALSE
    /\ loaded = 0
    /\ rendered = [n \in Names |-> 0]

(* any destination directory, any source; the default command line *)
InitDirectory ==
    /\ doc \in {[valid |-> v, slides |-> n, slide_width |-> sw,
                 slide_height |-> MaxDim - 1] :
                    v \in BOOLEAN, n \in 0..MaxSlides, sw \in {0, MaxDim}}
    /\ ~doc.valid => doc.slides = 0 /\ doc.slide_width = MaxDim
    /\ doc.slides = 0 => doc.slide_width = MaxDim
    /\ width = None
    /\ height = None
    /\ mtime \in MinTime..MaxTime
    /\ dirExists \in BOOLEAN
    /\ dir \in [Names -> Files]
    /\ ~dirExists => dir = EmptyDir
    /\ InitRun

(* any command line and slide size; an empty destination directory *)
InitGeometry ==
    /\ doc \in {[valid |-> TRUE, slides |-> n, slide_width |-> sw,
                 slide_height |-> sh] :
                    n \in 1..MaxSlides, sw \in 0..MaxDim, sh \in 0..MaxDim}
    /\ width \in Args
    /\ height \in Args
    /\ mtime = MinTime
    /\ dirExists = TRUE
    /\ dir = EmptyDir
    /\ InitRun

Init == InitDirectory

----------------------------------------------------------------------------
(* main *)

EmbedFailed == \E n \in 1..MaxSlides : <<"ts_error", n>> \in printed

(* the slide.Export calls of this run *)
Exports == SelectSeq(events, LAMBDA e : e.op = "Export")

(* lines 157-206 of main, up to the call of export_slides_as_png; a run   *)
(* starts when no run is in progress                                      *)
main ==
    /\ pc \in {"idle", "done", "crashed"}
    /\ prev' = [completed |-> pc = "done" /\ needed # "unknown",
                quiet |-> ~touched,
                embedded |-> ~EmbedFailed,
                exports |-> Len(Exports)]
    /\ touched' = FALSE
    /\ before' = dirExists
    /\ dirExists' = TRUE
    /\ num_slides' = get_slide_count(doc)
    /\ printed' = (IF doc.valid THEN {} ELSE {<<"count_error", 0>>})
                  \cup (IF get_slide_count(doc) = 0
                        THEN {<<"no_count", 0>>} ELSE {})
    /\ pc' = IF get_slide_count(doc) = 0 THEN "done" ELSE "needs_conversion"
    /\ events' = <<>>
    /\ needed' = "unknown"
    /\ powerpoint' = "none"
    /\ presentation' = "none"
    /\ i' = 0
    /\ source_timestamp' = 0
    /\ UNCHANGED <<doc, width, height, mtime, dir>>
    /\ loaded' = 0
    /\ UNCHANGED rendered

(* mutant: a freshness check that deletes the artifacts it finds outdated *)
export_check_deletes ==
    /\ pc = "needs_conversion"
    /\ needed' = IF needs_conversion(dir, mtime, num_slides)
                 THEN "True" ELSE "False"
    /\ printed' = printed \cup NeedsPrints(dir, mtime, num_slides)
    /\ pc' = IF needs_conversion(dir, mtime, num_slides)
             THEN "CreateObject" ELSE "done"
    /\ dir' = [n \in Names |->
                  IF <<"outdated", 1>> \in NeedsPrints(dir, mtime, num_slides)
                     /\ n = OutputName(1)
                  THEN Absent ELSE dir[n]]
    /\ UNCHANGED <<doc, width, height, mtime, dirExists, num_slides,
                   source_timestamp, i, powerpoint, presentation, events,
                   before, prev, touched>>
    /\ UNCHANGED <<loaded, rendered>>

(* lines 104-108: the freshness check that opens export_slides_as_png *)
export_check ==
    /\ pc = "needs_conversion"
    /\ needed' = IF needs_conversion(dir, mtime, num_slides)
                 THEN "True" ELSE "False"
    /\ printed' = printed \cup NeedsPrints(dir, mtime, num_slides)
                  \cup (IF needs_conversion(dir, mtime, num_slides)
                        THEN {} ELSE {<<"completed", 0>>})
    /\ pc' = IF needs_conversion(dir, mtime, num_slides)
             THEN "CreateObject" ELSE "done"
    /\ UNCHANGED <<doc, width, height, mtime, dirExists, dir, num_slides,
                   source_timestamp, i, powerpoint, presentation, events,
                   before, prev, touched>>
    /\ UNCHANGED <<loaded, rendered>>

(* lines 111-113 *)
create_object ==
    /\ pc = "CreateObject"
    /\ powerpoint' = "running"
    /\ pc' = "Open"
    /\ UNCHANGED <<doc, width, height, mtime, dirExists, dir, num_slides,
                   source_timestamp, i, presentation, events, printed,
                   needed, before, prev, touched>>
    /\ UNCHANGED <<loaded, rendered>>

(* line 114 *)
open_presentation ==
    /\ pc = "Open"
    /\ presentation' = "open"
    /\ pc' = "getmtime"
    /\ UNCHANGED <<doc, width, height, mtime, dirExists, dir, num_slides,
                   source_timestamp, i, powerpoint, events, printed,
                   needed, before, prev, touched>>
    /\ loaded' = mtime
    /\ UNCHANGED rendered

(* the interpreter's traceback of an exception no code of the program    *)
(* catches: it quotes source lines and the exception, and names no slide *)
Traceback == <<"traceback", 0>>

(* line 114 raises: the exception leaves export_slides_as_png and main *)
open_raises ==
    /\ pc = "Open"
    /\ pc' = "crashed"
    /\ printed' = printed \cup {Traceback}
    /\ UNCHANGED <<doc, width, height, mtime, dirExists, dir, num_slides,
                   source_timestamp, i, powerpoint, presentation, events,
                   needed, before, prev, touched>>
    /\ UNCHANGED <<loaded, rendered>>

(* line 116, and the loop's first iteration *)
read_mtime ==
    /\ pc = "getmtime"
    /\ source_timestamp' = mtime
    /\ i' = 1
    /\ pc' = IF doc.slides >= 1 THEN "Export" ELSE "Close"
    /\ UNCHANGED <<doc, width, height, mtime, dirExists, dir, num_slides,
                   powerpoint, presentation, events, printed, needed,
                   before, prev, touched>>
    /\ UNCHANGED <<loaded, rendered>>

Call(op, n, size, ok) ==
    [op |-> op, slide |-> n, name |-> ExportName(n),
     w |-> size[1], h |-> size[2], ok |-> ok]

(* lines 119-140: the size is computed and slide.Export writes the PNG *)
export_slide ==
    /\ pc = "Export"
    /\ ~ZeroDivision(width, height, doc.slide_width, doc.slide_height)
    /\ LET size == ppt_size(width, height, doc.slide_width, doc.slide_height)
       IN  events' = Append(events, Call("Export", i, size, TRUE))
    /\ dir' = [dir EXCEPT ![ExportName(i)] = PlainPng]
    /\ printed' = printed \cup {<<"exporting", i>>}
    /\ pc' = "add_timestamp"
    /\ UNCHANGED <<doc, width, height, mtime, dirExists, num_slides,
                   source_timestamp, i, powerpoint, presentation, needed,
                   before, prev, touched>>
    /\ rendered' = [rendered EXCEPT ![ExportName(i)] = loaded]
    /\ UNCHANGED loaded

(* line 140 raises: the exception leaves export_slides_as_png and main *)
export_raises ==
    /\ pc = "Export"
    /\ ~ZeroDivision(width, height, doc.slide_width, doc.slide_height)
    /\ LET size == ppt_size(width, height, doc.slide_width, doc.slide_height)
       IN  events' = Append(events, Call("Export", i, size, FALSE))
    /\ printed' = printed \cup {<<"exporting", i>>, Traceback}
    /\ pc' = "crashed"
    /\ UNCHANGED <<doc, width, height, mtime, dirExists, dir, num_slides,
                   source_timestamp, i, powerpoint, presentation, needed,
                   before, prev, touched>>
    /\ UNCHANGED <<loaded, rendered>>

(* lines 121-133 raise ZeroDivisionError *)
zero_division ==
    /\ pc = "Export"
    /\ ZeroDivision(width, height, doc.slide_width, doc.slide_height)
    /\ pc' = "crashed"
    /\ printed' = printed \cup {Traceback}
    /\ UNCHANGED <<doc, width, height, mtime, dirExists, dir, num_slides,
                   source_timestamp, i, powerpoint, presentation, events,
                   needed, before, prev, touched>>
    /\ UNCHANGED <<loaded, rendered>>

(* mutant: the loop leaves before the last slide *)
NextSlideShort == IF i + 1 < doc.slides THEN "Export" ELSE "Close"

(* the loop's next iteration, or lines 148-149 when the slides are done *)
NextSlide == IF i + 1 <= doc.slides THEN "Export" ELSE "Close"

(* lines 141-146: add_timestamp_to_png succeeds *)
embed_timestamp ==
    /\ pc = "add_timestamp"
    /\ ~OpenRaises(dir[ExportName(i)])
    /\ dir' = [dir EXCEPT ![ExportName(i)] =
                   add_timestamp_to_png(dir[ExportName(i)], source_timestamp)]
    /\ events' = Append(events, Call("embed", i, <<0, 0>>, TRUE))
    /\ printed' = printed \cup {<<"ts_added", i>>}
    /\ i' = i + 1
    /\ pc' = NextSlide
    /\ UNCHANGED <<doc, width, height, mtime, dirExists, num_slides,
                   source_timestamp, powerpoint, presentation, needed,
                   before, prev, touched>>
    /\ UNCHANGED <<loaded, rendered>>

(* lines 22-23: add_timestamp_to_png catches IOError / OSError *)
embed_fails ==
    /\ pc = "add_timestamp"
    /\ \E f \in FailedWrites(dir[ExportName(i)]) :
           dir' = [dir EXCEPT ![ExportName(i)] = f]
    /\ events' = Append(events, Call("embed", i, <<0, 0>>, FALSE))
    /\ printed' = printed \cup {<<"ts_error", i>>}
    /\ i' = i + 1
    /\ pc' = NextSlide
    /\ UNCHANGED <<doc, width, height, mtime, dirExists, num_slides,
                   source_timestamp, powerpoint, presentation, needed,
                   before, prev, touched>>
    /\ UNCHANGED <<loaded, rendered>>

(* lines 148-150, and main's line 210 *)
close_session ==
    /\ pc = "Close"
    /\ presentation' = "closed"
    /\ powerpoint' = "quit"
    /\ printed' = printed \cup {<<"completed", 0>>}
    /\ pc' = "done"
    /\ UNCHANGED <<doc, width, height, mtime, dirExists, dir, num_slides,
                   source_timestamp, i, events, needed, before, prev,
                   touched>>
    /\ UNCHANGED <<loaded, rendered>>

(* an external writer saves the source document *)
touch_source ==
    /\ mtime < MaxTime
    /\ mtime' = mtime + 1
    /\ touched' = TRUE
    /\ UNCHANGED <<doc, width, height, dirExists, dir, pc, num_slides,
                   source_timestamp, i, powerpoint, presentation, events,
                   printed, needed, before, prev>>
    /\ UNCHANGED <<loaded, rendered>>

Next ==
    \/ main
    \/ export_check
    \/ create_object
    \/ open_presentation
    \/ open_raises
    \/ read_mtime
    \/ export_slide
    \/ export_raises
    \/ zero_division
    \/ embed_timestamp
    \/ embed_fails
    \/ close_session
    \/ touch_source

Spec == Init /\ [][Next]_vars

(* the export run without failures or external writers, over every command *)
(* line and slide size: the geometry is a function of these inputs alone   *)
NextGeometry ==
    \/ main
    \/ export_check
    \/ create_object
    \/ open_presentation
    \/ read_mtime
    \/ export_slide
    \/ zero_division
    \/ embed_timestamp
    \/ close_session

SpecGeometry == InitGeometry /\ [][NextGeometry]_vars

----------------------------------------------------------------------------
(* Properties *)

(* needs_conversion has returned in this run and nothing was exported since: *)
(* dir is the directory it read                                              *)
JustChecked == needed # "unknown" /\ events = <<>>

(* the step in which needs_conversion runs; mtime and dir are its inputs *)
CheckStep == pc = "needs_conversion" /\ pc' # "needs_conversion"

Positive(x) == x # None /\ x[1] > 0

(* the previous run returned from export_slides_as_png, and the source was *)
(* not modified since that run started                                     *)
SecondQuietRun ==
    /\ needed # "unknown"
    /\ num_slides >= 1
    /\ prev.completed
    /\ prev.quiet
    /\ ~touched

C2_MissingForcesExport ==
    (JustChecked /\ \E k \in 1..num_slides : ~Exists(dir[OutputName(k)]))
        => needed = "True"

C2_Witness ==
    /\ JustChecked
    /\ num_slides = MaxSlides
    /\ \A k \in 1..(MaxSlides - 1) :
           dir[OutputName(k)] = StampedPng(StrFloat(MaxTime))
    /\ ~Exists(dir[OutputName(MaxSlides)])
    /\ needed = "True"

(* C3: when the artifact of some ordinal in 1..num_slides carries the      *)
(* embedded timestamp t1 and the source's modification time is t2 > t1,    *)
(* needs_conversion returns True, whatever the other artifacts are.        *)
C3_StaleIsDetected ==
    [][(/\ CheckStep
        /\ \E k \in 1..num_slides, t1 \in MinTime..MaxTime :
               /\ dir[OutputName(k)] = StampedPng(StrFloat(t1))
               /\ t1 < mtime)
       => needed' = "True"]_vars

C3_Witness ==
    /\ JustChecked
    /\ num_slides = MaxSlides
    /\ \A k \in 1..(MaxSlides - 1) :
           dir[OutputName(k)] = StampedPng(StrFloat(MaxTime))
    /\ dir[OutputName(MaxSlides)] = StampedPng(StrFloat(MinTime))
    /\ <<"outdated", MaxSlides>> \in printed
    /\ needed = "True"

(* a >= b on Python floats *)
Ge(a, b) == ~a.nan /\ ~b.nan /\ a.val >= b.val

(* C4: needs_conversion returns False if and only if every artifact of     *)
(* 1..num_slides exists and its embedded timestamp (0.0 when absent or     *)
(* unparsable) is >= the source's modification time.                       *)
C4_ExactFreshness ==
    [][CheckStep =>
           ((needed' = "False") <=>
                \A k \in 1..num_slides :
                    /\ Exists(dir[OutputName(k)])
                    /\ Ge(get_timestamp_from_png(dir[OutputName(k)]),
                          FloatOf(mtime)))]_vars

(* text without a single digit *)
NonNumeric(s) == s # <<>> /\ \A j \in 1..Len(s) : s[j] \notin Digits

(* an existing artifact whose SourcePPTXTimestamp is absent, empty or       *)
(* non-numeric, or whose file is no image                                   *)
Defective(f) ==
    \/ f.kind = "corrupt"
    \/ f.kind = "png" /\ (~f.hasText \/ f.text = <<>> \/ NonNumeric(f.text))

(* C5: for an existing artifact whose SourcePPTXTimestamp is absent, empty *)
(* or non-numeric text, or whose file is no image, get_timestamp_from_png  *)
(* returns 0.0 and needs_conversion returns True.                          *)
C5_CorruptIsStale ==
    JustChecked =>
        \A k \in 1..num_slides :
            Defective(dir[OutputName(k)]) =>
                /\ get_timestamp_from_png(dir[OutputName(k)]) = Zero
                /\ needed = "True"

(* C6: with width and height both positive every slide.Export call gets    *)
(* exactly (width, height); with only width it gets width, with only       *)
(* height it gets height, with neither it gets the width 1280.             *)
C6_GeometryPrecedence ==
    \A n \in 1..Len(Exports) :
        LET e == Exports[n]
        IN  /\ (Positive(width) /\ Positive(height))
                   => e.w = width[1] /\ e.h = height[1]
            /\ (Positive(width) /\ height = None) => e.w = width[1]
            /\ (width = None /\ Positive(height)) => e.h = height[1]
            /\ (width = None /\ height = None) => e.w = DefaultWidth

C6_Witness ==
    /\ Len(Exports) = MaxSlides
    /\ Positive(width)
    /\ Positive(height)
    /\ doc.slide_height * width[1] # doc.slide_width * height[1]
    /\ doc.slide_height * width[1] >= doc.slide_width

(* x is an integer nearest to num / den *)
Nearest(x, num, den) ==
    LET d == x * den - num
    IN  2 * (IF d < 0 THEN -d ELSE d) <= den

(* C7: for a positive aspect ratio the derived dimension is the nearest    *)
(* integer: round(width * r) with only width, round(height / r) with only  *)
(* height, round(1280 * r) with neither.                                   *)
C7_RoundedToNearest ==
    (doc.slide_width > 0 /\ doc.slide_height > 0) =>
        \A n \in 1..Len(Exports) :
            LET e == Exports[n]
                sw == doc.slide_width
                sh == doc.slide_height
            IN  /\ (Positive(width) /\ height = None)
                       => Nearest(e.h, width[1] * sh, sw)
                /\ (width = None /\ Positive(height))
                       => Nearest(e.w, height[1] * sw, sh)
                /\ (width = None /\ height = None)
                       => Nearest(e.h, DefaultWidth * sh, sw)

(* the run's last call was a successful add_timestamp_to_png on slide k *)
JustEmbedded(k) ==
    /\ events # <<>>
    /\ events[Len(events)] = Call("embed", k, <<0, 0>>, TRUE)

(* C8: after add_timestamp_to_png(p, t) succeeds, get_timestamp_from_png(p) *)
(* returns t, read from the SourcePPTXTimestamp field, and the artifact is  *)
(* not older than a source modified at t.                                   *)
C8_EmbedReadRoundTrip ==
    \A k \in 1..MaxSlides :
        JustEmbedded(k) =>
            /\ dir[OutputName(k)].hasText
            /\ get_timestamp_from_png(dir[OutputName(k)])
                   = FloatOf(source_timestamp)
            /\ ~Lt(get_timestamp_from_png(dir[OutputName(k)]),
                   FloatOf(source_timestamp))

C8_Witness ==
    /\ JustEmbedded(MaxSlides)
    /\ source_timestamp = MinTime + 1
    /\ prev.exports >= 1

(* C9: needs_conversion, with its calls of get_timestamp_from_png, leaves  *)
(* the destination directory and every file in it unchanged.               *)
C9_CheckIsReadOnly ==
    [][CheckStep => dir' = dir /\ dirExists' = dirExists]_vars

C9_Witness ==
    /\ JustChecked
    /\ <<"outdated", MaxSlides>> \in printed
    /\ <<"read_error", MaxSlides>> \in printed
    /\ dir[OutputName(MaxSlides)] = Corrupt

(* C10: when the slide count of the source cannot be read, main opens no   *)
(* PowerPoint session, writes no artifact and creates no directory.        *)
C10_FailFastLeavesNoTrace ==
    (pc = "done" /\ ~doc.valid /\ <<"no_count", 0>> \in printed) =>
        /\ dirExists = before
        /\ powerpoint = "none"
        /\ events = <<>>

PositiveOrAbsent(x) == x = None \/ x[1] > 0

(* C11: for a slide whose native width or height is zero, and width and    *)
(* height inputs that are positive or absent, slide.Export is never called *)
(* with a zero width or height.                                            *)
C11_DegenerateSlideNeverRendered ==
    (/\ doc.slide_width = 0 \/ doc.slide_height = 0
     /\ PositiveOrAbsent(width)
     /\ PositiveOrAbsent(height))
        => \A n \in 1..Len(Exports) : Exports[n].w > 0 /\ Exports[n].h > 0

(* stem + "-slide-" + the 1-based ordinal as two zero-padded digits + ".png" *)
ExpectedName(k) ==
    <<"deck", "-slide-", DigitChar[(k \div 10) + 1], DigitChar[(k % 10) + 1],
      ".png">>

(* C12: the path export_slides_as_png writes for the i-th slide is the path *)
(* needs_conversion probes for ordinal i, it is deck-slide-NN.png with NN   *)
(* the zero-padded ordinal, and distinct ordinals have distinct paths.      *)
C12_NamesAgree ==
    /\ \A n \in 1..Len(events) :
           /\ events[n].name = OutputName(events[n].slide)
           /\ events[n].name = ExpectedName(events[n].slide)
           /\ (events[n].op = "Export" /\ events[n].ok /\ n = Len(events))
                  => Exists(dir[OutputName(events[n].slide)])
    /\ \A m, n \in 1..Len(events) :
           events[m].slide # events[n].slide
               => events[m].name # events[n].name

C12_Witness ==
    /\ <<"missing", MaxSlides>> \in printed
    /\ Len(Exports) = MaxSlides
    /\ Exports[MaxSlides].ok
    /\ Exports[MaxSlides].name = <<"deck", "-slide-", "0",
                                   DigitChar[MaxSlides + 1], ".png">>
    /\ Exists(dir[OutputName(MaxSlides)])

(* C13: when export_slides_as_png has exited, normally or by an exception, *)
(* the PowerPoint application it created has quit and the presentation it  *)
(* opened is closed.                                                       *)
C13_SessionReleased ==
    pc \in {"done", "crashed"} =>
        powerpoint # "running" /\ presentation # "open"

AllCallsOk == \A n \in 1..Len(events) : events[n].ok

(* C14: the calls of a run are Export 1, embed 1, Export 2, embed 2, ... in *)
(* this order, and a failure-free run in which needs_conversion returned    *)
(* True has made exactly one Export call for every ordinal 1..num_slides,   *)
(* whether or not the slide's artifact was current.                         *)
C14_BatchInOrdinalOrder ==
    /\ \A n \in 1..Len(events) :
           /\ events[n].slide = (n + 1) \div 2
           /\ events[n].op = IF n % 2 = 1 THEN "Export" ELSE "embed"
    /\ (pc = "done" /\ needed = "True" /\ AllCallsOk)
           => Len(events) = 2 * num_slides

C14_Witness ==
    /\ pc = "done"
    /\ needed = "True"
    /\ AllCallsOk
    /\ num_slides = MaxSlides
    /\ <<"missing", MaxSlides>> \in printed
    /\ Len(Exports) = MaxSlides

(* C15: in every state of a run, each artifact the run has exported is     *)
(* either absent or a PNG carrying the embedded source timestamp.          *)
C15_NeverPartiallyWritten ==
    \A n \in 1..Len(events) :
        (events[n].op = "Export" /\ events[n].ok) =>
            LET f == dir[events[n].name]
            IN  \/ ~Exists(f)
                \/ /\ f.kind = "png"
                   /\ f.hasText
                   /\ f.text = StrFloat(source_timestamp)

(* a message of this run that reports a failure and names slide k *)
FailureReported(k) ==
    \E m \in printed : m[1] \in {"ts_error", "traceback"} /\ m[2] = k

(* C16: when slide.Export or add_timestamp_to_png fails for slide i, the   *)
(* run emits a failure report that identifies that slide's artifact.       *)
C16_FailuresReportedPerArtifact ==
    \A n \in 1..Len(events) :
        ~events[n].ok => FailureReported(events[n].slide)

(* C17: an artifact whose pixels were rendered from a document version     *)
(* older than the source's modification time carries an embedded timestamp *)
(* strictly less than that modification time, so needs_conversion judges   *)
(* it stale.                                                               *)
C17_OldPixelsAreStale ==
    \A n \in Names :
        (rendered[n] # 0 /\ rendered[n] < mtime /\ Exists(dir[n]))
            => Lt(get_timestamp_from_png(dir[n]), FloatOf(mtime))

====
